---- MODULE Spec2Model ----
(***************************************************************************)
(* BondFlow (src/src/App.tsx): the App component's input state, its two    *)
(* memoised values (durationYears, cashFlows) and the summary figures the  *)
(* render derives from them.                                               *)
(*                                                                         *)
(* Memos.  durationYears reads the clock, which is not among its           *)
(* dependencies, so its value is state: it is a variable, recomputed only  *)
(* when maturityDate changes.  cashFlows reads nothing but its             *)
(* dependencies (App.tsx 203 lists every input it uses and                 *)
(* durationYears), so after every render it is the projection of the       *)
(* current inputs and the memoised durationYears: it is a state function.  *)
(*                                                                         *)
(* Numbers.  The program computes with JavaScript numbers.  A number is    *)
(* modelled as an exact fraction [n |-> numerator, d |-> denominator] in   *)
(* lowest terms with d > 0; d = 0 stands for NaN.  Binary floating-point   *)
(* rounding is not modelled: every sum, product and quotient is exact.     *)
(*                                                                         *)
(* Time.  Date.getTime() counts milliseconds; the model counts ticks of    *)
(* six hours, so that a day is 4 ticks and the program's year of 365.25    *)
(* days is 1461 ticks.                                                     *)
(***************************************************************************)
EXTENDS Integers, Sequences, FiniteSets

VARIABLES
    nominal, currentPrice, sellingPrice, taxRate, couponRate, bankCommission,
    periodicity, maturityDate,
    includeNominalAtT0, sellAtMaturity, showNominal,
    now,             \* the wall clock, in ticks (what new Date().getTime() returns)
    durationYears    \* the useMemo value keyed on [maturityDate]

inputs == <<nominal, currentPrice, sellingPrice, taxRate, couponRate, bankCommission,
            periodicity, includeNominalAtT0, sellAtMaturity, showNominal>>
vars == <<inputs, maturityDate, now, durationYears>>

----------------------------------------------------------------------------
(* JavaScript numbers as exact fractions *)

Abs(x) == IF x < 0 THEN -x ELSE x

RECURSIVE Gcd(_, _)
Gcd(a, b) ==
    IF b = 0 THEN a
    ELSE LET r == a % b
         IN  IF r = 0 THEN b ELSE Gcd(r, b % r)

NaN == [n |-> 0, d |-> 0]

\* the fraction n/d in lowest terms; a zero denominator is NaN
Q(n, d) ==
    IF d = 0 THEN NaN
    ELSE IF d = 1 THEN [n |-> n, d |-> 1]
    ELSE LET g == Gcd(Abs(n), Abs(d))
         IN  IF d < 0 THEN [n |-> (-n) \div g, d |-> (-d) \div g]
             ELSE [n |-> n \div g, d |-> d \div g]

R(k) == [n |-> k, d |-> 1]

IsNaN(a) == a.d = 0

Add(a, b) == Q(a.n * b.d + b.n * a.d, a.d * b.d)
Sub(a, b) == Q(a.n * b.d - b.n * a.d, a.d * b.d)
Mul(a, b) == Q(a.n * b.n, a.d * b.d)
\* a / b; the program never divides by zero (see initialInvestment, avgAnnualReturn)
Div(a, b) == Q(a.n * b.d, a.d * b.n)
Neg(a)    == [n |-> -a.n, d |-> a.d]

\* a > b, a <= b: every comparison with NaN is false
Gt(a, b) == ~IsNaN(a) /\ ~IsNaN(b) /\ a.n * b.d > b.n * a.d
Le(a, b) == ~IsNaN(a) /\ ~IsNaN(b) /\ a.n * b.d <= b.n * a.d

\* mutant: a NaN argument ignored instead of propagated
MathMaxSkipNaN(a, b) ==
    IF IsNaN(a) THEN b ELSE IF IsNaN(b) THEN a ELSE IF Gt(b, a) THEN b ELSE a

MathMax(a, b) == IF IsNaN(a) \/ IsNaN(b) THEN NaN ELSE IF Gt(b, a) THEN b ELSE a
MathCeil(a)   == IF IsNaN(a) THEN NaN ELSE R(-((-a.n) \div a.d))
MathAbs(a)    == IF IsNaN(a) THEN NaN ELSE [n |-> Abs(a.n), d |-> a.d]
\* x || y : 0, -0 and NaN are falsy
OrElse(a, b)  == IF IsNaN(a) \/ a.n = 0 THEN b ELSE a

\* nums.reduce((s, x) => s + x, 0), over a sequence of numbers
RECURSIVE SumFrom(_, _, _)
SumFrom(nums, i, s) ==
    IF i > Len(nums) THEN s ELSE SumFrom(nums, i + 1, Add(s, nums[i]))
Sum(nums) == SumFrom(nums, 1, R(0))

----------------------------------------------------------------------------
(* Time *)

TicksPerDay  == 4       \* 1000 * 60 * 60 * 24 ms
TicksPerYear == 1461    \* 1000 * 60 * 60 * 24 * 365.25 ms

\* the value of the date input: a calendar day (numbered from the day the
\* clock starts in), or a string that new Date() cannot parse
Day(k)      == [valid |-> TRUE, day |-> k]
InvalidDate == [valid |-> FALSE, day |-> 0]

\* new Date(maturityDate).getTime(): midnight UTC of the day, NaN if invalid
DateGetTime(md) == IF md.valid THEN R(md.day * TicksPerDay) ELSE NaN

\* mutant: a negative span not clamped to 0
DurationYearsNoClamp(md, today) ==
    Div(Sub(DateGetTime(md), R(today)), R(TicksPerYear))

DurationYears(md, today) ==
    LET maturity == DateGetTime(md)
        diffTime == MathMax(R(0), Sub(maturity, R(today)))
    IN  Div(diffTime, R(TicksPerYear))

----------------------------------------------------------------------------
(* The cashFlows memo (App.tsx 117-203).  p is the record of the inputs,   *)
(* dur the memoised durationYears.                                         *)

PeriodsPerYear(per) == IF per = "annual" THEN 1 ELSE 2

\* mutant: the floor of one period forgotten
TotalPeriodsNoFloor(dur, periodsPerYear) == MathCeil(Mul(dur, R(periodsPerYear)))

TotalPeriods(dur, periodsPerYear) ==
    MathMax(R(1), MathCeil(Mul(dur, R(periodsPerYear))))

\* mutants: the coupon not divided by the periods, the commission per cent
CouponDecimalAnnual(cr, periodsPerYear) == Div(cr, R(100))
CommissionPercent(bc)                   == Div(bc, R(100))

TaxDecimal(tax)                   == Div(tax, R(100))
CouponDecimal(cr, periodsPerYear) == Div(Div(cr, R(100)), R(periodsPerYear))
CommissionDecimal(bc)             == Div(bc, R(1000))

\* a CashFlowDetail; an isFigurative the code leaves out (undefined) is FALSE,
\* which is how every reader of the field treats it
Detail(label, value, isFigurative) ==
    [label |-> label, value |-> value, isFigurative |-> isFigurative]
\* mutant: a figurative amount counted as real
RealValueFigurativeCounted(d) == d.value

RealValue(d) == IF d.isFigurative THEN R(0) ELSE d.value

\* details.reduce((s, d) => s + d.value, 0)
SumValues(details) == Sum([j \in 1..Len(details) |-> details[j].value])
\* details.reduce((s, d) => s + (d.isFigurative ? 0 : d.value), 0)
SumRealValues(details) == Sum([j \in 1..Len(details) |-> RealValue(details[j])])

PurchaseCost(cp, nom)                 == Mul(Div(cp, R(100)), nom)
BuyCommission(nom, commissionDecimal) == Mul(nom, commissionDecimal)

T0Outflows(purchaseCost, buyCommission) ==
    << Detail("Costo Acquisto", purchaseCost, FALSE),
       Detail("Commissione Banca", buyCommission, FALSE) >>

\* mutant: the real and the figurative line pushed independently
T0InflowsBoth(incl, show, nom) ==
    (IF incl THEN << Detail("Nominale", nom, FALSE) >> ELSE << >>)
    \o (IF show THEN << Detail("Nominale", nom, TRUE) >> ELSE << >>)

T0Inflows(incl, show, nom) ==
    IF incl THEN << Detail("Nominale", nom, FALSE) >>
    ELSE IF show THEN << Detail("Nominale", nom, TRUE) >>
    ELSE << >>

T0Negative(purchaseCost, buyCommission) == Neg(Add(purchaseCost, buyCommission))
T0Positive(t0Inflows)                   == SumValues(t0Inflows)
T0RealInflow(incl, nom)                 == IF incl THEN nom ELSE R(0)

T0Cumulative(t0RealInflow, t0Negative) == Add(t0RealInflow, t0Negative)

GrossCoupon(nom, couponDecimal)    == Mul(nom, couponDecimal)
CouponTax(grossCoupon, taxDecimal) == Mul(grossCoupon, taxDecimal)

\* mutant: the prices swapped
CapitalGainSwapped(sp, cp, nom) == Mul(Div(Sub(cp, sp), R(100)), nom)

CapitalGain(sp, cp, nom) == Mul(Div(Sub(sp, cp), R(100)), nom)
CapGainTax(capitalGain, taxDecimal) ==
    IF Gt(capitalGain, R(0)) THEN Mul(capitalGain, taxDecimal) ELSE R(0)

SellCommission(nom, commissionDecimal) == Mul(nom, commissionDecimal)

\* mutant: the redemption pushed in every period
InflowsRedeemEveryPeriod(isLast, grossCoupon, nom) ==
    << Detail("Cedola", grossCoupon, FALSE), Detail("Rimborso Nominale", nom, FALSE) >>

\* the inflows array of period i: the coupon, and in the last period the redemption
Inflows(isLast, grossCoupon, nom) ==
    << Detail("Cedola", grossCoupon, FALSE) >>
    \o (IF isLast THEN << Detail("Rimborso Nominale", nom, FALSE) >> ELSE << >>)

\* mutant: the sale commission charged whatever sellAtMaturity is
OutflowsCommissionAlways(isLast, couponTax, capGainTax, sell, sellCommission) ==
    << Detail("Tassazione Cedola", couponTax, FALSE) >>
    \o (IF isLast /\ Gt(capGainTax, R(0))
        THEN << Detail("Tassa Capital Gain", capGainTax, FALSE) >> ELSE << >>)
    \o (IF isLast
        THEN << Detail("Commissione Banca", sellCommission, FALSE) >> ELSE << >>)

\* the outflows array of period i: the coupon tax, and in the last period the
\* capital gain tax if it is positive and the bank commission unless sellAtMaturity
Outflows(isLast, couponTax, capGainTax, sell, sellCommission) ==
    << Detail("Tassazione Cedola", couponTax, FALSE) >>
    \o (IF isLast /\ Gt(capGainTax, R(0))
        THEN << Detail("Tassa Capital Gain", capGainTax, FALSE) >> ELSE << >>)
    \o (IF isLast /\ ~sell
        THEN << Detail("Commissione Banca", sellCommission, FALSE) >> ELSE << >>)

IsLast(i, totalPeriods) == R(i) = totalPeriods

TimeTag(per, i)         == << (IF per = "annual" THEN "A" ELSE "S"), i >>
RowLabel(per, i, isLast) ==
    IF isLast THEN << "Scadenza" >>
    ELSE << (IF per = "annual" THEN "Anno" ELSE "Semestre"), i >>

Pos(inflows)   == SumValues(inflows)
Negv(outflows) == Neg(SumValues(outflows))

\* mutant: the outflows left out of the running balance
NextCumulativeInflowOnly(currentCumulative, pos, neg) == Add(currentCumulative, pos)

NextCumulative(currentCumulative, pos, neg) == Add(currentCumulative, Add(pos, neg))

CashFlows(p, dur) ==
    LET periodsPerYear    == PeriodsPerYear(p.periodicity)
        totalPeriods      == TotalPeriods(dur, periodsPerYear)
        taxDecimal        == TaxDecimal(p.taxRate)
        couponDecimal     == CouponDecimal(p.couponRate, periodsPerYear)
        commissionDecimal == CommissionDecimal(p.bankCommission)
        \* Time 0
        purchaseCost  == PurchaseCost(p.currentPrice, p.nominal)
        buyCommission == BuyCommission(p.nominal, commissionDecimal)
        t0Outflows    == T0Outflows(purchaseCost, buyCommission)
        t0Inflows     == T0Inflows(p.includeNominalAtT0, p.showNominal, p.nominal)
        t0Negative    == T0Negative(purchaseCost, buyCommission)
        t0Positive    == T0Positive(t0Inflows)
        t0RealInflow  == T0RealInflow(p.includeNominalAtT0, p.nominal)
        t0Cumulative  == T0Cumulative(t0RealInflow, t0Negative)
        t0Row ==
            [ time       |-> << "T0" >>,
              positive   |-> t0Positive,
              negative   |-> t0Negative,
              cumulative |-> t0Cumulative,
              label      |-> << "Acquisto & Nominale" >>,
              details    |-> [inflows |-> t0Inflows, outflows |-> t0Outflows] ]
        \* the body of the loop, for period i; what does not depend on i is
        \* named once here (the loop recomputes it every round, to the same value)
        grossCoupon    == GrossCoupon(p.nominal, couponDecimal)
        couponTax      == CouponTax(grossCoupon, taxDecimal)
        capitalGain    == CapitalGain(p.sellingPrice, p.currentPrice, p.nominal)
        capGainTax     == CapGainTax(capitalGain, taxDecimal)
        sellCommission == SellCommission(p.nominal, commissionDecimal)
        Row(i, currentCumulative) ==
            LET isLast   == IsLast(i, totalPeriods)
                inflows  == Inflows(isLast, grossCoupon, p.nominal)
                outflows == Outflows(isLast, couponTax, capGainTax,
                                     p.sellAtMaturity, sellCommission)
                pos == Pos(inflows)
                neg == Negv(outflows)
            IN  [ time       |-> TimeTag(p.periodicity, i),
                  positive   |-> pos,
                  negative   |-> neg,
                  cumulative |-> NextCumulative(currentCumulative, pos, neg),
                  label      |-> RowLabel(p.periodicity, i, isLast),
                  details    |-> [inflows |-> inflows, outflows |-> outflows] ]
        \* for (let i = 1; i <= totalPeriods; i++) { ... data.push(...) }
        RECURSIVE Loop(_, _, _)
        Loop(i, currentCumulative, data) ==
            IF Le(R(i), totalPeriods)
            THEN LET row == Row(i, currentCumulative)
                 IN  Loop(i + 1, row.cumulative, Append(data, row))
            ELSE data
    IN  Loop(1, t0Cumulative, << t0Row >>)

----------------------------------------------------------------------------------------------------------------------------------------
(* The component: its state and the handlers that change it *)

MaxNow == 1            \* the clock is followed for this many ticks

\* values the number inputs deliver (InputGroup: parseFloat(...) || 0)
NominalValues    == { R(10000), R(0), R(-100) }
PriceValues      == { Q(197, 2), R(100) }
TaxValues        == { Q(25, 2), R(0) }
CouponValues     == { Q(7, 2), R(0) }
CommissionValues == { R(2), R(0) }
Periodicities    == { "annual", "semiannual" }
\* values the date input delivers: empty, today, and a day some 13 months ahead
MaturityDates    == { InvalidDate, Day(0), Day(400) }

\* the default of the date input: the calendar date five years after today's,
\* which is 1826 days ahead when the five years hold one 29 February and 1827
\* when they hold two
DefaultMaturityDates == { Day(1826), Day(1827) }

\* the record of inputs the cashFlows memo reads
Params ==
    [ nominal |-> nominal, currentPrice |-> currentPrice, sellingPrice |-> sellingPrice,
      taxRate |-> taxRate, couponRate |-> couponRate, bankCommission |-> bankCommission,
      periodicity |-> periodicity, includeNominalAtT0 |-> includeNominalAtT0,
      sellAtMaturity |-> sellAtMaturity, showNominal |-> showNominal ]

\* the useState initialisers and the first render
Init ==
    /\ nominal = R(10000)
    /\ currentPrice = Q(197, 2)
    /\ sellingPrice = R(100)
    /\ taxRate = Q(25, 2)
    /\ couponRate = Q(7, 2)
    /\ bankCommission = R(2)
    /\ periodicity = "annual"
    /\ includeNominalAtT0 = FALSE
    /\ sellAtMaturity = TRUE
    /\ showNominal = FALSE
    /\ now = 0
    /\ maturityDate \in DefaultMaturityDates
    /\ durationYears = DurationYears(maturityDate, now)

\* a render after a change that left maturityDate alone: the durationYears memo
\* is kept
Rerender == UNCHANGED <<maturityDate, now, durationYears>>

SetNominal(v) ==
    /\ v # nominal
    /\ nominal' = v
    /\ UNCHANGED <<currentPrice, sellingPrice, taxRate, couponRate, bankCommission,
                   periodicity, includeNominalAtT0, sellAtMaturity, showNominal>>
    /\ Rerender

SetCurrentPrice(v) ==
    /\ v # currentPrice
    /\ currentPrice' = v
    /\ UNCHANGED <<nominal, sellingPrice, taxRate, couponRate, bankCommission,
                   periodicity, includeNominalAtT0, sellAtMaturity, showNominal>>
    /\ Rerender

SetSellingPrice(v) ==
    /\ v # sellingPrice
    /\ sellingPrice' = v
    /\ UNCHANGED <<nominal, currentPrice, taxRate, couponRate, bankCommission,
                   periodicity, includeNominalAtT0, sellAtMaturity, showNominal>>
    /\ Rerender

SetTaxRate(v) ==
    /\ v # taxRate
    /\ taxRate' = v
    /\ UNCHANGED <<nominal, currentPrice, sellingPrice, couponRate, bankCommission,
                   periodicity, includeNominalAtT0, sellAtMaturity, showNominal>>
    /\ Rerender

SetCouponRate(v) ==
    /\ v # couponRate
    /\ couponRate' = v
    /\ UNCHANGED <<nominal, currentPrice, sellingPrice, taxRate, bankCommission,
                   periodicity, includeNominalAtT0, sellAtMaturity, showNominal>>
    /\ Rerender

SetBankCommission(v) ==
    /\ v # bankCommission
    /\ bankCommission' = v
    /\ UNCHANGED <<nominal, currentPrice, sellingPrice, taxRate, couponRate,
                   periodicity, includeNominalAtT0, sellAtMaturity, showNominal>>
    /\ Rerender

SetPeriodicity(v) ==
    /\ v # periodicity
    /\ periodicity' = v
    /\ UNCHANGED <<nominal, currentPrice, sellingPrice, taxRate, couponRate,
                   bankCommission, includeNominalAtT0, sellAtMaturity, showNominal>>
    /\ Rerender

SetShowNominal(v) ==
    /\ v # showNominal
    /\ showNominal' = v
    /\ UNCHANGED <<nominal, currentPrice, sellingPrice, taxRate, couponRate,
                   bankCommission, periodicity, includeNominalAtT0, sellAtMaturity>>
    /\ Rerender

SetIncludeNominalAtT0(v) ==
    /\ v # includeNominalAtT0
    /\ includeNominalAtT0' = v
    /\ UNCHANGED <<nominal, currentPrice, sellingPrice, taxRate, couponRate,
                   bankCommission, periodicity, sellAtMaturity, showNominal>>
    /\ Rerender

SetSellAtMaturity(v) ==
    /\ v # sellAtMaturity
    /\ sellAtMaturity' = v
    /\ UNCHANGED <<nominal, currentPrice, sellingPrice, taxRate, couponRate,
                   bankCommission, periodicity, includeNominalAtT0, showNominal>>
    /\ Rerender

\* the date input's onChange: the only change that recomputes durationYears,
\* against the clock at that moment
SetMaturityDate(v) ==
    /\ v # maturityDate
    /\ maturityDate' = v
    /\ UNCHANGED <<inputs, now>>
    /\ durationYears' = DurationYears(maturityDate', now')

\* time passes; nothing is rendered
Tick ==
    /\ now < MaxNow
    /\ now' = now + 1
    /\ UNCHANGED <<inputs, maturityDate, durationYears>>

Next ==
    \/ \E v \in NominalValues : SetNominal(v)
    \/ \E v \in PriceValues : SetCurrentPrice(v)
    \/ \E v \in PriceValues : SetSellingPrice(v)
    \/ \E v \in TaxValues : SetTaxRate(v)
    \/ \E v \in CouponValues : SetCouponRate(v)
    \/ \E v \in CommissionValues : SetBankCommission(v)
    \/ \E v \in Periodicities : SetPeriodicity(v)
    \/ \E v \in MaturityDates : SetMaturityDate(v)
    \/ \E v \in BOOLEAN : SetShowNominal(v)
    \/ \E v \in BOOLEAN : SetIncludeNominalAtT0(v)
    \/ \E v \in BOOLEAN : SetSellAtMaturity(v)
    \/ Tick

Spec == Init /\ [][Next]_vars


----------------------------------------------------------------------------
(* The figures the render derives from the memos (App.tsx 205-218) *)

\* the cashFlows memo after the render
cashFlows == CashFlows(Params, durationYears)

RowRealInflow(item) == SumRealValues(item.details.inflows)

TotalPositive(cf) == Sum([k \in 1..Len(cf) |-> RowRealInflow(cf[k])])
TotalNegative(cf) == MathAbs(Sum([k \in 1..Len(cf) |-> cf[k].negative]))
NetProfit(cf)     == Sub(TotalPositive(cf), TotalNegative(cf))

\* mutant: no fallback for a zero outlay
InitialInvestmentNoFallback(cf) == MathAbs(cf[1].negative)

\* cashFlows[0] always exists: the T0 row is pushed unconditionally
InitialInvestment(cf)  == MathAbs(OrElse(cf[1].negative, R(1)))
TotalReturnPercent(cf) == Mul(Div(NetProfit(cf), InitialInvestment(cf)), R(100))
AvgAnnualReturn(cf, dur) ==
    IF Gt(dur, R(0)) THEN Div(TotalReturnPercent(cf), dur)
    ELSE TotalReturnPercent(cf)

totalPositive      == TotalPositive(cashFlows)
totalNegative      == TotalNegative(cashFlows)
netProfit          == NetProfit(cashFlows)
initialInvestment  == InitialInvestment(cashFlows)
totalReturnPercent == TotalReturnPercent(cashFlows)
avgAnnualReturn    == AvgAnnualReturn(cashFlows, durationYears)

----------------------------------------------------------------------------
(* Properties.  The labels are the program's: 'Nominale' is the nominal,   *)
(* 'Costo Acquisto' the purchase cost, 'Commissione Banca' the bank        *)
(* commission, 'Cedola' the coupon, 'Tassazione Cedola' the coupon tax,    *)
(* 'Rimborso Nominale' the nominal redemption, 'Tassa Capital Gain' the    *)
(* capital gain tax.  Row k of the schedule is cashFlows[k + 1].           *)

Labelled(seq, l) == { j \in 1..Len(seq) : seq[j].label = l }
Count(seq, l)    == Cardinality(Labelled(seq, l))
Amounts(seq, l)  == { seq[j].value : j \in Labelled(seq, l) }

\* ceil(n / d) for d > 0, on integers
CeilDiv(n, d) == (n + d - 1) \div d

\* max(1, ceil(years to maturity * periods per year)), on integers
ExpectedN ==
    LET c == CeilDiv(durationYears.n * (IF periodicity = "annual" THEN 1 ELSE 2),
                     durationYears.d)
    IN  IF c < 1 THEN 1 ELSE c

\* C1: with a valid maturity date the schedule has exactly N + 1 rows,
\* N = max(1, ceil(yearsToMaturity * periodsPerYear)) >= 1; row 0 is tagged T0
\* and row i, for i = 1..N, is tagged A<i> (annual) or S<i> (semiannual).
C1_RowsAndTags ==
    maturityDate.valid =>
        LET cf == cashFlows
            N  == ExpectedN
        IN  /\ N >= 1
            /\ Len(cf) = N + 1
            /\ cf[1].time = << "T0" >>
            /\ \A i \in 1..N :
                   cf[i + 1].time = << (IF periodicity = "annual" THEN "A" ELSE "S"), i >>

C1_Witness ==
    /\ maturityDate.valid
    /\ periodicity = "semiannual"
    /\ Len(cashFlows) = 12
    /\ cashFlows[12].time = << "S", 11 >>

\* the sum of the amounts of a row's inflows whose figurative flag is not set
RealInflowOf(row) ==
    LET inf  == row.details.inflows
        real == { j \in 1..Len(inf) : ~inf[j].isFigurative }
    IN  IF real = {} THEN R(0)
        ELSE IF Cardinality(real) = 1 THEN inf[CHOOSE j \in real : TRUE].value
        ELSE Add(inf[1].value, inf[2].value)

\* C2: cumulative[k] = cumulative[k-1] + (sum of the non-figurative inflows of
\* period k) + negative[k] for every k >= 1, and
\* cumulative[0] = (nominal if includeNominalAtT0 else 0) + negative[0].
C2_CumulativeRecurrence ==
    LET cf == cashFlows
    IN  /\ cf[1].cumulative =
               Add(IF includeNominalAtT0 THEN nominal ELSE R(0), cf[1].negative)
        /\ \A k \in 2..Len(cf) :
               cf[k].cumulative =
                   Add(Add(cf[k - 1].cumulative, RealInflowOf(cf[k])),
                       cf[k].negative)

C2_Witness ==
    /\ Len(cashFlows) >= 3
    /\ showNominal /\ ~includeNominalAtT0
    /\ nominal = R(10000)
    /\ cashFlows[1].positive = R(10000)
    /\ cashFlows[1].cumulative = cashFlows[1].negative

\* C3: the cumulative balance of the last period equals
\* totalRealInflow - totalOutflow, the netProfit of the summary, for every
\* parameter combination (zero or negative nominal included).
C3_LastCumulativeIsNetProfit ==
    LET cf == cashFlows
    IN  cf[Len(cf)].cumulative = NetProfit(cf)

Cumulatives(cf) == [k \in 1..Len(cf) |-> cf[k].cumulative]

\* C4: two parameter sets that differ only in showNominal give the same
\* cumulative balance in every period and the same totalRealInflow, netProfit,
\* totalReturnPercent and annualized return.
C4_ShowNominalIndifferent ==
    LET shown  == CashFlows([Params EXCEPT !.showNominal = TRUE], durationYears)
        hidden == CashFlows([Params EXCEPT !.showNominal = FALSE], durationYears)
    IN  /\ Cumulatives(shown) = Cumulatives(hidden)
        /\ TotalPositive(shown) = TotalPositive(hidden)
        /\ NetProfit(shown) = NetProfit(hidden)
        /\ TotalReturnPercent(shown) = TotalReturnPercent(hidden)
        /\ AvgAnnualReturn(shown, durationYears) = AvgAnnualReturn(hidden, durationYears)

\* the figurative line is on display, with a non-zero amount
C4_Witness ==
    /\ showNominal /\ ~includeNominalAtT0
    /\ nominal = R(10000)
    /\ Len(cashFlows[1].details.inflows) = 1
    /\ cashFlows[1].details.inflows[1].isFigurative
    /\ Len(cashFlows) >= 2

\* the terminal row of a schedule that has one (0 when only T0 is there)
Terminal(cf) == IF Len(cf) >= 2 THEN Len(cf) ELSE 0

\* (sellingPrice - purchasePrice) / 100 * nominal * taxRate / 100
ExpectedGainTax ==
    Div(Mul(Mul(Div(Sub(sellingPrice, currentPrice), R(100)), nominal), taxRate), R(100))

C6_BankCommission ==
    LET cf == cashFlows
    IN  \A k \in 1..Len(cf) :
           LET out == cf[k].details.outflows
           IN  IF k = 1 THEN Count(out, "Commissione Banca") = 1
               ELSE IF k = Terminal(cf) /\ ~sellAtMaturity
               THEN /\ Count(out, "Commissione Banca") = 1
                    /\ Amounts(out, "Commissione Banca")
                           = { Div(Mul(nominal, bankCommission), R(1000)) }
               ELSE Count(out, "Commissione Banca") = 0

C6_Witness ==
    /\ ~sellAtMaturity
    /\ Len(cashFlows) >= 3
    /\ nominal = R(10000) /\ bankCommission = R(2)
    /\ Amounts(cashFlows[Len(cashFlows)].details.outflows, "Commissione Banca") = { R(20) }

\* C7: period 0 holds at most one nominal inflow: present and non-figurative
\* if includeNominalAtT0 (whatever showNominal is), else present and figurative
\* if showNominal, else absent; its amount is the nominal, and the positive
\* total of period 0 is that amount (0 when absent), figurative or not.
C7_NominalAtT0 ==
    LET row == cashFlows[1]
        inf == row.details.inflows
    IN  /\ Len(inf) <= 1
        /\ Count(inf, "Nominale") = Len(inf)
        /\ IF includeNominalAtT0
              THEN Len(inf) = 1 /\ ~inf[1].isFigurative
              ELSE IF showNominal
              THEN Len(inf) = 1 /\ inf[1].isFigurative
              ELSE Len(inf) = 0
        /\ Amounts(inf, "Nominale") \subseteq { nominal }
        /\ row.positive = (IF Len(inf) = 1 THEN nominal ELSE R(0))

C7_Witness ==
    /\ includeNominalAtT0 /\ showNominal
    /\ nominal = R(10000)
    /\ Len(cashFlows[1].details.inflows) = 1
    /\ ~cashFlows[1].details.inflows[1].isFigurative
    /\ cashFlows[1].positive = R(10000)

\* the inputs of Scenario A, but for includeNominalAtT0
ScenarioInputs ==
    /\ nominal = R(10000) /\ currentPrice = Q(197, 2) /\ sellingPrice = R(100)
    /\ taxRate = Q(25, 2) /\ couponRate = Q(7, 2) /\ bankCommission = R(2)

\* C8: the outflows of period 0 are exactly the purchase cost,
\* purchasePrice/100 * nominal, and the bank commission,
\* nominal * bankCommissionPerMille/1000; its negative total is minus their
\* sum and its cumulative balance is (nominal if includeNominalAtT0 else 0)
\* minus that sum: -9870 in Scenario A and +130 in Scenario D.
C8_PeriodZero ==
    LET row  == cashFlows[1]
        cost == Div(Mul(currentPrice, nominal), R(100))
        fee  == Div(Mul(nominal, bankCommission), R(1000))
    IN  /\ row.details.outflows =
               << [label |-> "Costo Acquisto", value |-> cost, isFigurative |-> FALSE],
                  [label |-> "Commissione Banca", value |-> fee, isFigurative |-> FALSE] >>
        /\ row.negative = Neg(Add(cost, fee))
        /\ row.cumulative =
               Sub(IF includeNominalAtT0 THEN nominal ELSE R(0), Add(cost, fee))
        /\ (ScenarioInputs /\ ~includeNominalAtT0 => row.cumulative = R(-9870))
        /\ (ScenarioInputs /\ includeNominalAtT0 => row.cumulative = R(130))

C8_Witness ==
    /\ ScenarioInputs /\ includeNominalAtT0
    /\ cashFlows[1].negative = R(-9870)
    /\ cashFlows[1].cumulative = R(130)

\* C9: every period i in 1..N, the terminal one included, carries a coupon
\* inflow of nominal * (couponRate/100) / periodsPerYear and a coupon tax
\* outflow of that coupon * taxRate/100; a non-terminal period carries nothing
\* else: its positive total is the coupon, its negative total minus the tax.
C9_CouponEveryPeriod ==
    LET cf     == cashFlows
        coupon == Div(Div(Mul(nominal, couponRate), R(100)),
                      R(IF periodicity = "annual" THEN 1 ELSE 2))
        tax    == Div(Mul(coupon, taxRate), R(100))
    IN  \A k \in 2..Len(cf) :
           /\ Count(cf[k].details.inflows, "Cedola") = 1
           /\ Amounts(cf[k].details.inflows, "Cedola") = { coupon }
           /\ Count(cf[k].details.outflows, "Tassazione Cedola") = 1
           /\ Amounts(cf[k].details.outflows, "Tassazione Cedola") = { tax }
           /\ k < Len(cf) =>
                  /\ Len(cf[k].details.inflows) = 1
                  /\ Len(cf[k].details.outflows) = 1
                  /\ cf[k].positive = coupon
                  /\ cf[k].negative = Neg(tax)

C9_Witness ==
    /\ periodicity = "semiannual"
    /\ Len(cashFlows) >= 4
    /\ nominal = R(10000) /\ couponRate = Q(7, 2) /\ taxRate = Q(25, 2)
    /\ cashFlows[2].positive = R(175)
    /\ cashFlows[2].negative = Q(-175, 8)
    /\ Amounts(cashFlows[Len(cashFlows)].details.inflows, "Cedola") = { R(175) }

\* C10: the nominal redemption inflow, of amount nominal, appears exactly
\* once in period N and in no other period; when the maturity date is today
\* or in the past (years to maturity 0), N = 1 and period 1 carries the coupon
\* and its tax together with the whole terminal payload (the redemption, the
\* capital gain tax when positive, the commission unless sellAtMaturity) and
\* is labelled 'Scadenza'.
C10_RedemptionOnlyAtMaturity ==
    maturityDate.valid =>
        LET cf == cashFlows
        IN  /\ \A k \in 1..Len(cf) :
                   IF k = Terminal(cf)
                   THEN /\ Count(cf[k].details.inflows, "Rimborso Nominale") = 1
                        /\ Amounts(cf[k].details.inflows, "Rimborso Nominale") = { nominal }
                   ELSE Count(cf[k].details.inflows, "Rimborso Nominale") = 0
            /\ durationYears = R(0) =>
                   /\ Len(cf) = 2
                   /\ cf[2].label = << "Scadenza" >>
                   /\ Count(cf[2].details.inflows, "Cedola") = 1
                   /\ Count(cf[2].details.outflows, "Tassazione Cedola") = 1
                   /\ Count(cf[2].details.inflows, "Rimborso Nominale") = 1
                   /\ Count(cf[2].details.outflows, "Tassa Capital Gain")
                          = (IF Gt(ExpectedGainTax, R(0)) THEN 1 ELSE 0)
                   /\ Count(cf[2].details.outflows, "Commissione Banca")
                          = (IF sellAtMaturity THEN 0 ELSE 1)

\* the maturity date is today and the clock has moved on since midnight
C10_Witness ==
    /\ maturityDate = Day(0) /\ now >= 1
    /\ Len(cashFlows) = 2
    /\ nominal = R(10000) /\ ~sellAtMaturity
    /\ Len(cashFlows[2].details.inflows) = 2
    /\ Len(cashFlows[2].details.outflows) = 3
    /\ cashFlows[2].label = << "Scadenza" >>

\* the span from the instant t (in ticks) to midnight of day k, clamped at 0,
\* in days (a quarter of the ticks) divided by 365.25, on integers
YearsBetween(k, t) ==
    LET span == k * 4 - t
    IN  IF span <= 0 THEN R(0) ELSE Q(span * 100, 4 * 36525)

\* C11: yearsToMaturity is max(0, maturityDate - today) in days divided by
\* 365.25, today being the moment it was computed, so a maturity that is not
\* in the future gives exactly 0; the annualized return is
\* totalReturnPercent / yearsToMaturity when yearsToMaturity > 0 and
\* totalReturnPercent when it is 0, and is never the result of a division by
\* zero.
C11_YearsAndAnnualized ==
    maturityDate.valid =>
        LET cf    == cashFlows
            total == TotalReturnPercent(cf)
            avg   == AvgAnnualReturn(cf, durationYears)
        IN  /\ \E t \in 0..now : durationYears = YearsBetween(maturityDate.day, t)
            /\ maturityDate.day <= 0 => durationYears = R(0)
            /\ ~IsNaN(total) /\ ~IsNaN(avg)
            /\ IF durationYears = R(0) THEN avg = total
               ELSE /\ Gt(durationYears, R(0))
                    /\ avg = Div(total, durationYears)

\* the maturity is midnight of today and the clock is past it: the negative
\* span is clamped and the annualized return is the total return
C11_Witness ==
    /\ maturityDate = Day(0) /\ now >= 1
    /\ durationYears = R(0)
    /\ nominal = R(10000) /\ couponRate = Q(7, 2)
    /\ avgAnnualReturn = totalReturnPercent
    /\ Gt(totalReturnPercent, R(0))

\* C12: initialInvestment is the absolute value of period 0's negative total,
\* or 1 when that total is zero (nominal = 0, say);
\* totalReturnPercent = netProfit / initialInvestment * 100, the denominator
\* is never zero and the result is always a number.
C12_InitialInvestmentFallback ==
    LET cf   == cashFlows
        neg0 == cf[1].negative
        ii   == InitialInvestment(cf)
        net  == NetProfit(cf)
        pct  == TotalReturnPercent(cf)
    IN  /\ ii = (IF neg0.n = 0 THEN R(1) ELSE IF neg0.n < 0 THEN Neg(neg0) ELSE neg0)
        /\ ~IsNaN(ii) /\ ii.n > 0
        /\ ~IsNaN(pct)
        /\ pct = Div(Mul(net, R(100)), ii)

\* nothing is bought: the outlay is zero and the fallback of 1 is the divisor
C12_Witness ==
    /\ nominal = R(0)
    /\ cashFlows[1].negative = R(0)
    /\ initialInvestment = R(1)
    /\ totalReturnPercent = R(0)

\* C13: totalOutflow is the sum over the periods of the absolute value of the
\* period's negative total, totalRealInflow the sum over the periods of the
\* inflow amounts whose figurative flag is not set, and
\* netProfit = totalRealInflow - totalOutflow, for every parameter
\* combination (periods whose negative totals differ in sign included).
C13_TotalsArePeriodSums ==
    LET cf == cashFlows
    IN  /\ TotalNegative(cf) = Sum([k \in 1..Len(cf) |-> MathAbs(cf[k].negative)])
        /\ TotalPositive(cf) = Sum([k \in 1..Len(cf) |-> RealInflowOf(cf[k])])
        /\ NetProfit(cf) = Sub(TotalPositive(cf), TotalNegative(cf))

\* C14: with annual periodicity and the maturity date five calendar years
\* after today's (the default, whatever the date and the time of day), N = 5:
\* the schedule has the 6 rows T0, A1..A5.
C14_FiveYearsFivePeriods ==
    (periodicity = "annual" /\ maturityDate \in DefaultMaturityDates) =>
        LET cf == cashFlows
        IN  /\ Len(cf) = 6
            /\ cf[1].time = << "T0" >>
            /\ \A i \in 1..5 : cf[i + 1].time = << "A", i >>

\* C15: every change of a parameter, whichever it is, recomputes the years
\* to maturity against the clock at that moment, and N with them, so that the
\* schedule and the summary displayed after the change (cashFlows and the
\* figures, functions of the inputs and of durationYears) are the projection
\* of the new parameters against today as of the change, nothing being
\* carried over from an earlier computation.
C15_RecomputedOnEveryChange ==
    [][ (<< inputs, maturityDate >>' # << inputs, maturityDate >>) =>
            LET fresh == DurationYears(maturityDate', now')
                ppy   == PeriodsPerYear(periodicity')
            IN  /\ durationYears' = fresh
                /\ TotalPeriods(durationYears', ppy) = TotalPeriods(fresh, ppy) ]_vars

\* C16: when the maturity date field is empty or unparseable, the years to
\* maturity are not a number, the period loop runs zero times and the schedule
\* is the T0 row alone: no coupon and no nominal redemption appear, netProfit
\* is minus the purchase outlay (the magnitude of period 0's negative total)
\* plus the T0 nominal when it is real, and the annualized return is the
\* total return.
C16_InvalidDateT0Only ==
    ~maturityDate.valid =>
        LET cf     == cashFlows
            outlay == MathAbs(Add(Div(Mul(currentPrice, nominal), R(100)),
                                  Div(Mul(nominal, bankCommission), R(1000))))
            real0  == IF includeNominalAtT0 THEN nominal ELSE R(0)
            total  == TotalReturnPercent(cf)
        IN  /\ IsNaN(durationYears)
            /\ Len(cf) = 1
            /\ cf[1].time = << "T0" >>
            /\ Count(cf[1].details.inflows, "Cedola") = 0
            /\ Count(cf[1].details.inflows, "Rimborso Nominale") = 0
            /\ NetProfit(cf) = Sub(real0, outlay)
            /\ ~IsNaN(total)
            /\ AvgAnnualReturn(cf, durationYears) = total

\* the date field has been cleared while the T0 nominal is real
C16_Witness ==
    /\ maturityDate = InvalidDate
    /\ includeNominalAtT0 /\ ScenarioInputs
    /\ IsNaN(durationYears)
    /\ Len(cashFlows) = 1
    /\ netProfit = R(130)
    /\ avgAnnualReturn = Q(13000, 9870)

====
